---- MODULE Spec2Model ----
(***************************************************************************)
(* Model of scripts/extract.py (arcasHLA extract): main computes the       *)
(* sample name and the log file, extract_reads issues a fixed series of    *)
(* external commands (samtools, bedtools, pigz) and finally calls          *)
(* remove_files.                                                           *)
(*                                                                         *)
(* Python strings that the code inspects or concatenates (paths, the BAM   *)
(* header, contig names) are sequences of one-character strings, so that   *)
(* `in`, splitext, split and ''.join are computed character by character.  *)
(* Fixed command words ('samtools', '-f 2', '>>') are kept as tokens.      *)
(***************************************************************************)
EXTENDS Integers, Sequences, FiniteSets, TLC

VARIABLES
    pc,            \* position of the script
    bam,           \* args.bam
    outdir,        \* check_path(args.outdir)
    temp,          \* check_path(args.temp)
    paired,        \* args.paired
    unmapped,      \* args.unmapped
    keep_files,    \* args.keep_files
    log_arg,       \* args.log (<<>> is None)
    alts,          \* the list loaded from database/decoys_alts.p
    contigs,       \* the sequences the BAM declares, in @SQ order
    bai0,          \* whether <bam>.bai existed when the script started
    bai,           \* whether <bam>.bai exists now
    main_sample,   \* sample of __main__ (line 221)
    log_file,      \* log_file of __main__
    sample,        \* sample of extract_reads (line 63)
    file_list,     \* file_list of extract_reads
    header,        \* header of extract_reads (text of samtools view -H)
    chrom,         \* chrom of extract_reads
    alt_i,         \* index of the next element of the loop over alts
    cmds,          \* every command handed to run_command, in order
    sam,           \* content of <temp><sample>.hla.sam, a sequence of blocks
    sam_at_bam,    \* what the SAM-to-BAM conversion read
    pending,       \* FASTQ files still to be compressed
    removed,       \* the calls of remove_files
    exit_msg       \* argument of sys.exit (<<>> while none)

vars == <<pc, bam, outdir, temp, paired, unmapped, keep_files, log_arg, alts,
          contigs, bai0, bai, main_sample, log_file, sample, file_list,
          header, chrom, alt_i, cmds, sam, sam_at_bam, pending, removed,
          exit_msg>>

\* ------------------------------------------------------------------ bounds

\* longest alts list tried
MaxAlts == 2

\* ----------------------------------------------------------------- strings

\* str.rfind(c) + 1: the last position of c in s, 0 when c does not occur
RFind(s, c) ==
    LET hits == {k \in 1..Len(s) : s[k] = c}
    IN  IF hits = {} THEN 0 ELSE CHOOSE k \in hits : \A j \in hits : j <= k

\* str.find(c) + 1: the first position of c in s, 0 when c does not occur
Find(s, c) ==
    LET hits == {k \in 1..Len(s) : s[k] = c}
    IN  IF hits = {} THEN 0 ELSE CHOOSE k \in hits : \A j \in hits : k <= j

\* Python's `a in b` on strings: a occurs in b as a contiguous substring
Contains(b, a) ==
    \E k \in 0..(Len(b) - Len(a)) : SubSeq(b, k + 1, k + Len(a)) = a

\* ''.join(parts)
RECURSIVE Join(_)
Join(parts) ==
    IF parts = <<>> THEN <<>> ELSE Head(parts) \o Join(Tail(parts))

\* os.path.basename(p): what follows the last '/'
basename(p) == SubSeq(p, RFind(p, "/") + 1, Len(p))

\* os.path.splitext(p)[0]: p up to its last '.', unless that dot is in a
\* directory part or only dots precede it in the file name
splitext_root(p) ==
    LET sepIndex == RFind(p, "/")
        dotIndex == RFind(p, ".")
    IN  IF dotIndex > sepIndex
           /\ \E k \in (sepIndex + 1)..(dotIndex - 1) : p[k] # "."
        THEN SubSeq(p, 1, dotIndex - 1)
        ELSE p

\* s.split('.')[0]: s up to its first '.'
split_dot_first(s) ==
    IF Find(s, ".") = 0 THEN s ELSE SubSeq(s, 1, Find(s, ".") - 1)

\* line 63: sample = os.path.splitext(os.path.basename(bam))[0]
ExtractSample(b) == splitext_root(basename(b))

\* line 221: sample = os.path.basename(args.bam).split('.')[0]
MainSample(b) == split_dot_first(basename(b))

\* the literals of the script
SfxBai        == <<".", "b", "a", "i">>
SfxHlaSam     == <<".", "h", "l", "a", ".", "s", "a", "m">>
SfxHlaBam     == <<".", "h", "l", "a", ".", "b", "a", "m">>
SfxHlaSorted  == <<".", "h", "l", "a", ".", "s", "o", "r", "t", "e", "d",
                   ".", "b", "a", "m">>
SfxFq         == <<".", "e", "x", "t", "r", "a", "c", "t", "e", "d",
                   ".", "f", "q">>
SfxFq1        == <<".", "e", "x", "t", "r", "a", "c", "t", "e", "d",
                   ".", "1", ".", "f", "q">>
SfxFq2        == <<".", "e", "x", "t", "r", "a", "c", "t", "e", "d",
                   ".", "2", ".", "f", "q">>
SfxLog        == <<".", "e", "x", "t", "r", "a", "c", "t", ".", "l", "o", "g">>
SNchr         == <<"S", "N", ":", "c", "h", "r">>
Chr6          == <<"c", "h", "r", "6">>
Six           == <<"6">>
ErrIndex      == "[extract] Error: unable to index bam file."

\* ------------------------------------------------------------------ inputs

GL1  == <<"G", "L", "1">>
GL12 == <<"G", "L", "1", "2">>

\* reference sequences a BAM may declare, in the order of its @SQ lines
ContigPool == <<Six, Chr6, GL1, GL12>>

\* names the alts/decoys list may hold
AltPool == {GL1, GL12}

\* BAM file names given on the command line
BamPool ==
    { <<"s", ".", "b", "a", "m">>,
      <<"a", ".", "b", ".", "b", "a", "m">>,
      <<"/", "t", "m", "p", "/", "s", ".", "h", "l", "a", ".", "b", "a", "m">>,
      <<"d", ".", "x", "/", "s">> }

\* directories as check_path returns them (ending in '/')
DirTmp == <<"/", "t", "m", "p", "/">>
DirDot == <<".", "/">>

LogPool == { <<>>, <<"r", ".", "l", "o", "g">> }

\* the elements of pool at the positions in keep, in pool order
RECURSIVE Pick(_, _, _)
Pick(pool, keep, k) ==
    IF k > Len(pool) THEN <<>>
    ELSE (IF k \in keep THEN <<pool[k]>> ELSE <<>>) \o Pick(pool, keep, k + 1)

HeaderPool == { Pick(ContigPool, keep, 1) : keep \in SUBSET (1..Len(ContigPool)) }

AltsPool == UNION { [1..n -> AltPool] : n \in 0..MaxAlts }

\* SAM flag words over the bits 0x2 (proper pair), 0x4 (unmapped),
\* 0x8 (mate unmapped)
Flags == {0, 2, 4, 6, 8, 10, 12, 14}

\* the reads of the BAM: every flag word on every declared sequence
BamReads == [contig : {contigs[k] : k \in 1..Len(contigs)}, flag : Flags]

\* ------------------------------------------------------- external commands

\* text printed by `samtools view -H`: an @HD line, then one @SQ line for
\* each declared sequence
RECURSIVE SqLines(_)
SqLines(cs) ==
    IF cs = <<>> THEN <<>>
    ELSE <<"@", "S", "Q", "\t", "S", "N", ":">> \o Head(cs)
         \o <<"\t", "L", "N", ":", "9", "\n">> \o SqLines(Tail(cs))

HeaderText(cs) == <<"@", "H", "D", "\t", "V", "N", ":", "1", "\n">> \o SqLines(cs)

\* bit b (a power of two) of flag word n
Bit(n, b) == (n \div b) % 2 = 1

\* samtools view -f / -F: a read passes `-f m` when all bits of m are set
\* and `-F m` when none is
Passes(filter, flag) ==
    CASE filter = "-f 2"  -> Bit(flag, 2)
      [] filter = "-F 4"  -> ~Bit(flag, 4)
      [] filter = "-f 4"  -> Bit(flag, 4)
      [] filter = "-f 12" -> Bit(flag, 4) /\ Bit(flag, 8)
      [] OTHER            -> TRUE

\* the reference a samtools region names ('name' or 'name:')
RegionContig(r) ==
    IF r # <<>> /\ r[Len(r)] = ":" THEN SubSeq(r, 1, Len(r) - 1) ELSE r

\* the reads `samtools view <filter> bam <region>` prints
Selected(filter, region) ==
    { rd \in BamReads : rd.contig = RegionContig(region) /\ Passes(filter, rd.flag) }

\* a file after a command wrote block to it: '>>' appends, '-o' and '>'
\* replace the content
Output(redir, old, block) ==
    IF redir = ">>" THEN Append(old, block) ELSE <<block>>

\* an absent string argument (None, or a field a command does not have)
NoStr == <<>>

\* a command list handed to run_command: the call site, the fixed words
\* (threads is the default '1', so '-@'+threads is '-@1'), the input file,
\* the region, the redirection word and the output files

Cmd(site, argv, in, region, redir, out, out2) ==
    [site |-> site, argv |-> argv, in |-> in, region |-> region,
     redir |-> redir, out |-> out, out2 |-> out2]

\* ------------------------------------------------------- locals of the code

\* line 68
hla_filtered == Join(<<temp, sample, SfxHlaSam>>)
\* line 70
hla_filtered_bam == Join(<<temp, sample, SfxHlaBam>>)
\* line 127
hla_sorted == Join(<<temp, sample, SfxHlaSorted>>)
\* lines 138, 139, 147
fq1 == Join(<<outdir, sample, SfxFq1>>)
fq2 == Join(<<outdir, sample, SfxFq2>>)
fq  == Join(<<outdir, sample, SfxFq>>)

\* the test of lines 48 and 52 with its `not` dropped
NoIndexInverted(exists) == exists

\* lines 48 and 52: not isfile(bam + '.bai')
NoIndex(exists) == ~exists

\* lines 77-80 with the two names exchanged
ChromOfSwapped(h) == IF Contains(h, SNchr) THEN Six ELSE Chr6

\* lines 77-80
ChromOf(h) == IF Contains(h, SNchr) THEN Chr6 ELSE Six

\* lines 91-92 and 112-113
MappedFilter(p) == IF p THEN "-f 2" ELSE "-F 4"

\* lines 101-102 ignoring paired
UnmappedFilterSingle(p) == "-f 4"

\* lines 101-102
UnmappedFilter(p) == IF p THEN "-f 12" ELSE "-f 4"

\* line 109: alt in header
AltInHeader(alt, h) == Contains(h, alt)

\* lines 136-150 with the second pigz (line 144) left out
FastqFilesFirst(p) == IF p THEN <<fq1>> ELSE <<fq>>

\* lines 136-150: the FASTQ files of the bamtofastq command, in the order
\* they are compressed
FastqFiles(p) == IF p THEN <<fq1, fq2>> ELSE <<fq>>

\* a block of the filtered SAM file: the command that wrote it, its region
\* and the reads it printed
Block(c) ==
    [by |-> c.site, region |-> c.region,
     reads |-> IF c.site = "header_write" THEN {}
               ELSE Selected(c.argv[Len(c.argv)], c.region)]

\* ----------------------------------------------------------------- actions

Init ==
    /\ pc = "main"
    /\ bam \in BamPool
    /\ outdir \in {DirDot, DirTmp}
    /\ temp = DirTmp
    /\ paired \in BOOLEAN
    /\ unmapped \in BOOLEAN
    /\ keep_files \in BOOLEAN
    /\ log_arg \in LogPool
    /\ alts \in AltsPool
    /\ contigs \in HeaderPool
    /\ bai0 \in BOOLEAN
    /\ bai = bai0
    /\ main_sample = NoStr
    /\ log_file = NoStr
    /\ sample = NoStr
    /\ file_list = <<>>
    /\ header = NoStr
    /\ chrom = NoStr
    /\ alt_i = 1
    /\ cmds = <<>>
    /\ sam \in {<<>>, <<[by |-> "stale", region |-> NoStr, reads |-> {}]>>}
    /\ sam_at_bam = <<>>
    /\ pending = <<>>
    /\ removed = <<>>
    /\ exit_msg = ""

\* lines 217-226: sample and log file of __main__
Main ==
    /\ pc = "main"
    /\ main_sample' = MainSample(bam)
    /\ log_file' = IF log_arg # NoStr THEN log_arg
                   ELSE Join(<<outdir, MainSample(bam), SfxLog>>)
    /\ pc' = "extract"
    /\ UNCHANGED <<bam, outdir, temp, paired, unmapped, keep_files, log_arg,
                   alts, contigs, bai0, bai, sample, file_list, header, chrom,
                   alt_i, cmds, sam, sam_at_bam, pending, removed, exit_msg>>

\* lines 249-256 and 60-63: the call of extract_reads up to index_bam
Begin ==
    /\ pc = "extract"
    /\ file_list' = <<>>
    /\ sample' = ExtractSample(bam)
    /\ pc' = "index"
    /\ UNCHANGED <<bam, outdir, temp, paired, unmapped, keep_files, log_arg,
                   alts, contigs, bai0, bai, main_sample, log_file, header,
                   chrom, alt_i, cmds, sam, sam_at_bam, pending, removed,
                   exit_msg>>

\* lines 46-53: index_bam; `made` is whether samtools index leaves a .bai
index_bam ==
    /\ pc = "index"
    /\ \E made \in BOOLEAN :
          /\ IF NoIndex(bai)
             THEN /\ cmds' = Append(cmds, Cmd("index", <<"samtools", "index">>,
                                              bam, NoStr, "", NoStr, NoStr))
                  /\ bai' = made
             ELSE /\ made
                  /\ UNCHANGED <<cmds, bai>>
          /\ IF NoIndex(bai')
             THEN pc' = "exit" /\ exit_msg' = ErrIndex
             ELSE pc' = "header" /\ UNCHANGED exit_msg
    /\ UNCHANGED <<bam, outdir, temp, paired, unmapped, keep_files, log_arg,
                   alts, contigs, bai0, main_sample, log_file, sample,
                   file_list, header, chrom, alt_i, sam, sam_at_bam, pending,
                   removed>>

\* lines 68-80: intermediate paths, header read, chromosome nomenclature
ReadHeader ==
    /\ pc = "header"
    /\ file_list' = file_list \o <<hla_filtered, hla_filtered_bam>>
    /\ cmds' = Append(cmds, Cmd("header_read", <<"samtools", "view", "-@1", "-H">>,
                                bam, NoStr, "", NoStr, NoStr))
    /\ header' = HeaderText(contigs)
    /\ chrom' = ChromOf(HeaderText(contigs))
    /\ pc' = "write_header"
    /\ UNCHANGED <<bam, outdir, temp, paired, unmapped, keep_files, log_arg,
                   alts, contigs, bai0, bai, main_sample, log_file, sample,
                   alt_i, sam, sam_at_bam, pending, removed, exit_msg>>

\* line 85 written like the extractions below it, with '>>'
HeaderRedirectAppend == ">>"

\* line 85: the header goes to hla_filtered through samtools' -o
HeaderRedirect == "-o"

\* lines 82-86
WriteHeader ==
    /\ pc = "write_header"
    /\ LET c == Cmd("header_write", <<"samtools", "view", "-H", "-@1">>,
                    bam, NoStr, HeaderRedirect, hla_filtered, NoStr)
       IN  /\ cmds' = Append(cmds, c)
           /\ sam' = Output(c.redir, sam, Block(c))
    /\ pc' = "chr6"
    /\ UNCHANGED <<bam, outdir, temp, paired, unmapped, keep_files, log_arg,
                   alts, contigs, bai0, bai, main_sample, log_file, sample,
                   file_list, header, chrom, alt_i, sam_at_bam, pending,
                   removed, exit_msg>>

\* lines 88-94
ExtractChr6 ==
    /\ pc = "chr6"
    /\ LET c == Cmd("chr6", <<"samtools", "view", "-@1", MappedFilter(paired)>>,
                    bam, chrom, ">>", hla_filtered, NoStr)
       IN  /\ cmds' = Append(cmds, c)
           /\ sam' = Output(c.redir, sam, Block(c))
    /\ pc' = "unmapped"
    /\ UNCHANGED <<bam, outdir, temp, paired, unmapped, keep_files, log_arg,
                   alts, contigs, bai0, bai, main_sample, log_file, sample,
                   file_list, header, chrom, alt_i, sam_at_bam, pending,
                   removed, exit_msg>>

\* lines 96-105
ExtractUnmapped ==
    /\ pc = "unmapped"
    /\ IF unmapped
       THEN LET c == Cmd("unmapped",
                         <<"samtools", "view", "-@1", UnmappedFilter(paired)>>,
                         bam, chrom, ">>", hla_filtered, NoStr)
            IN  /\ cmds' = Append(cmds, c)
                /\ sam' = Output(c.redir, sam, Block(c))
       ELSE UNCHANGED <<cmds, sam>>
    /\ alt_i' = 1
    /\ pc' = "alts"
    /\ UNCHANGED <<bam, outdir, temp, paired, unmapped, keep_files, log_arg,
                   alts, contigs, bai0, bai, main_sample, log_file, sample,
                   file_list, header, chrom, sam_at_bam, pending, removed,
                   exit_msg>>

\* lines 108-123 with the SAM-to-BAM conversion indented into the loop
ExtractAltConverting ==
    /\ pc = "alts"
    /\ alt_i <= Len(alts)
    /\ LET c == Cmd("alt", <<"samtools", "view", "-@1", MappedFilter(paired)>>,
                    bam, alts[alt_i] \o <<":">>, ">>", hla_filtered, NoStr)
           b == Cmd("sam2bam", <<"samtools", "view", "-Sb", "-@1">>,
                    hla_filtered, NoStr, ">", hla_filtered_bam, NoStr)
       IN  IF AltInHeader(alts[alt_i], header)
           THEN /\ cmds' = cmds \o <<c, b>>
                /\ sam' = Output(c.redir, sam, Block(c))
           ELSE /\ cmds' = Append(cmds, b)
                /\ UNCHANGED sam
    /\ alt_i' = alt_i + 1
    /\ UNCHANGED <<pc, bam, outdir, temp, paired, unmapped, keep_files, log_arg,
                   alts, contigs, bai0, bai, main_sample, log_file, sample,
                   file_list, header, chrom, sam_at_bam, pending, removed,
                   exit_msg>>

\* lines 108-116: one turn of the loop over alts
ExtractAlt ==
    /\ pc = "alts"
    /\ alt_i <= Len(alts)
    /\ IF AltInHeader(alts[alt_i], header)
       THEN LET c == Cmd("alt", <<"samtools", "view", "-@1", MappedFilter(paired)>>,
                         bam, alts[alt_i] \o <<":">>, ">>", hla_filtered, NoStr)
            IN  /\ cmds' = Append(cmds, c)
                /\ sam' = Output(c.redir, sam, Block(c))
       ELSE UNCHANGED <<cmds, sam>>
    /\ alt_i' = alt_i + 1
    /\ UNCHANGED <<pc, bam, outdir, temp, paired, unmapped, keep_files, log_arg,
                   alts, contigs, bai0, bai, main_sample, log_file, sample,
                   file_list, header, chrom, sam_at_bam, pending, removed,
                   exit_msg>>

\* lines 119-123, reached when the loop over alts is over
SamToBam ==
    /\ pc = "alts"
    /\ alt_i > Len(alts)
    /\ cmds' = Append(cmds, Cmd("sam2bam", <<"samtools", "view", "-Sb", "-@1">>,
                                hla_filtered, NoStr, ">", hla_filtered_bam, NoStr))
    /\ sam_at_bam' = sam
    /\ pc' = "sort"
    /\ UNCHANGED <<bam, outdir, temp, paired, unmapped, keep_files, log_arg,
                   alts, contigs, bai0, bai, main_sample, log_file, sample,
                   file_list, header, chrom, alt_i, sam, pending, removed,
                   exit_msg>>

\* lines 126-132 without line 128 (hla_sorted not added to file_list)
SortBamUntracked ==
    /\ pc = "sort"
    /\ cmds' = Append(cmds, Cmd("sort", <<"samtools", "sort", "-n", "-@1">>,
                                hla_filtered_bam, NoStr, "-o", hla_sorted, NoStr))
    /\ pc' = "fastq"
    /\ UNCHANGED <<bam, outdir, temp, paired, unmapped, keep_files, log_arg,
                   alts, contigs, bai0, bai, main_sample, log_file, sample,
                   file_list, header, chrom, alt_i, sam, sam_at_bam, pending,
                   removed, exit_msg>>

\* lines 126-132
SortBam ==
    /\ pc = "sort"
    /\ file_list' = Append(file_list, hla_sorted)
    /\ cmds' = Append(cmds, Cmd("sort", <<"samtools", "sort", "-n", "-@1">>,
                                hla_filtered_bam, NoStr, "-o", hla_sorted, NoStr))
    /\ pc' = "fastq"
    /\ UNCHANGED <<bam, outdir, temp, paired, unmapped, keep_files, log_arg,
                   alts, contigs, bai0, bai, main_sample, log_file, sample,
                   header, chrom, alt_i, sam, sam_at_bam, pending, removed,
                   exit_msg>>

\* lines 134-141 and 146-149: bedtools bamtofastq
BamToFastq ==
    /\ pc = "fastq"
    /\ cmds' = Append(cmds,
                  IF paired
                  THEN Cmd("bamtofastq", <<"bedtools", "bamtofastq", "-i", "-fq", "-fq2">>,
                           hla_sorted, NoStr, "", fq1, fq2)
                  ELSE Cmd("bamtofastq", <<"bedtools", "bamtofastq", "-i", "-fq">>,
                           hla_sorted, NoStr, "", fq, NoStr))
    /\ pending' = FastqFiles(paired)
    /\ pc' = "pigz"
    /\ UNCHANGED <<bam, outdir, temp, paired, unmapped, keep_files, log_arg,
                   alts, contigs, bai0, bai, main_sample, log_file, sample,
                   file_list, header, chrom, alt_i, sam, sam_at_bam, removed,
                   exit_msg>>

\* lines 143, 144 and 150: one pigz command
Pigz ==
    /\ pc = "pigz"
    /\ pending # <<>>
    /\ cmds' = Append(cmds, Cmd("pigz", <<"pigz", "-f", "-p", "1", "-S", ".gz">>,
                                Head(pending), NoStr, "", NoStr, NoStr))
    /\ pending' = Tail(pending)
    /\ UNCHANGED <<pc, bam, outdir, temp, paired, unmapped, keep_files, log_arg,
                   alts, contigs, bai0, bai, main_sample, log_file, sample,
                   file_list, header, chrom, alt_i, sam, sam_at_bam, removed,
                   exit_msg>>

\* line 152: the call of remove_files
RemoveFiles ==
    /\ pc = "pigz"
    /\ pending = <<>>
    /\ removed' = Append(removed, [files |-> file_list, keep |-> keep_files])
    /\ pc' = "done"
    /\ UNCHANGED <<bam, outdir, temp, paired, unmapped, keep_files, log_arg,
                   alts, contigs, bai0, bai, main_sample, log_file, sample,
                   file_list, header, chrom, alt_i, cmds, sam, sam_at_bam,
                   pending, exit_msg>>

Next ==
    \/ Main
    \/ Begin
    \/ index_bam
    \/ ReadHeader
    \/ WriteHeader
    \/ ExtractChr6
    \/ ExtractUnmapped
    \/ ExtractAlt
    \/ SamToBam
    \/ SortBam
    \/ BamToFastq
    \/ Pigz
    \/ RemoveFiles

Spec == Init /\ [][Next]_vars

\* ------------------------------------------------------------------ claims

\* positions of the commands issued at a call site
At(site) == {k \in 1..Len(cmds) : cmds[k].site = site}
Count(site) == Cardinality(At(site))

\* the stage of a call site in the order index, header read, header write,
\* chromosome 6, unmapped, alts, SAM to BAM, sort, bamtofastq, pigz
Rank(site) ==
    CASE site = "index"        -> 1
      [] site = "header_read"  -> 2
      [] site = "header_write" -> 3
      [] site = "chr6"         -> 4
      [] site = "unmapped"     -> 5
      [] site = "alt"          -> 6
      [] site = "sam2bam"      -> 7
      [] site = "sort"         -> 8
      [] site = "bamtofastq"   -> 9
      [] site = "pigz"         -> 10

Ordered ==
    \A j, k \in 1..Len(cmds) :
        j < k => /\ Rank(cmds[j].site) <= Rank(cmds[k].site)
                 /\ Rank(cmds[j].site) = Rank(cmds[k].site)
                        => cmds[j].site \in {"alt", "pigz"}

AllStagesOnce ==
    /\ \A site \in {"header_read", "header_write", "chr6", "sam2bam", "sort",
                    "bamtofastq"} : Count(site) = 1
    /\ Count("index") = (IF bai0 THEN 0 ELSE 1)
    /\ Count("unmapped") = (IF unmapped THEN 1 ELSE 0)
    /\ Count("alt") <= Len(alts)
    /\ Count("pigz") >= 1

Ended == pc \in {"done", "exit"}

\* C1 as stated: in every run the commands come in the fixed stage order
\* and, once the run has ended, SAM-to-BAM, sort and bamtofastq (and the
\* other mandatory stages) have each been issued exactly once.
C1_EveryRun == Ordered /\ (Ended => AllStagesOnce)

\* C1 amended: the commands always come in the fixed stage order with no
\* mandatory stage repeated; every run that passes indexing ends with each
\* mandatory stage issued exactly once; a run ended by index_bam has issued
\* nothing but the index command.
C1_Order ==
    /\ Ordered
    /\ pc = "done" => AllStagesOnce
    /\ pc = "exit" => \A k \in 1..Len(cmds) : cmds[k].site = "index"

C1_Witness ==
    /\ pc = "done" /\ paired /\ unmapped /\ ~bai0
    /\ Count("alt") = 2 /\ Count("pigz") = 2

PastIndex == pc \notin {"main", "extract", "index"}

\* C2: samtools index is issued iff <bam>.bai did not exist on entry; if it
\* is still missing afterwards the program exits with the indexing error
\* having issued nothing else and without calling remove_files; if it
\* existed on entry no index command is issued and the run goes on.
C2_Index ==
    /\ Count("index") <= 1
    /\ PastIndex => (Count("index") = 1 <=> ~bai0)
    /\ (PastIndex /\ ~bai) <=> pc = "exit"
    /\ pc = "exit" => /\ exit_msg = ErrIndex
                      /\ Len(cmds) = 1 /\ cmds[1].site = "index"
                      /\ cmds[1].argv = <<"samtools", "index">> /\ cmds[1].in = bam
                      /\ removed = <<>>
    /\ pc # "exit" => exit_msg = ""
    /\ bai0 => pc # "exit" /\ Count("index") = 0

C2_Witness == pc = "exit" /\ ~bai0 /\ Count("index") = 1

IsPrefix(a, b) == Len(a) <= Len(b) /\ SubSeq(b, 1, Len(a)) = a

\* the BAM names its sequences in the 'chr' convention
ChrConvention == \E k \in 1..Len(contigs) : IsPrefix(<<"c", "h", "r">>, contigs[k])

\* C3: the region of the chromosome-6 extraction and of the unmapped-read
\* extraction is 'chr6' when the header names sequences in the 'chr'
\* convention and '6' otherwise, the same in both commands.
C3_Chrom ==
    \A k \in At("chr6") \cup At("unmapped") :
        cmds[k].region = (IF ChrConvention THEN Chr6 ELSE Six)

C3_Witness ==
    /\ At("chr6") # {} /\ At("unmapped") # {}
    /\ \A k \in At("chr6") \cup At("unmapped") : cmds[k].region = Chr6

InArgv(c, tok) == \E n \in 1..Len(c.argv) : c.argv[n] = tok
Filters(c) == {tok \in {"-f 2", "-F 4", "-f 4", "-f 12"} : InArgv(c, tok)}

\* C4: chromosome-6 and alt extractions carry exactly '-f 2' when paired
\* and exactly '-F 4' when not; the unmapped extraction is issued iff
\* unmapped is set and carries '-f 12' when paired and '-f 4' when not.
C4_Flags ==
    /\ \A k \in At("chr6") \cup At("alt") :
          Filters(cmds[k]) = (IF paired THEN {"-f 2"} ELSE {"-F 4"})
    /\ \A k \in At("unmapped") :
          unmapped /\ Filters(cmds[k]) = (IF paired THEN {"-f 12"} ELSE {"-f 4"})
    /\ pc \in {"alts", "sort", "fastq", "pigz", "done"}
          => Count("unmapped") = (IF unmapped THEN 1 ELSE 0)

C4_Witness ==
    /\ pc = "sort" /\ paired /\ unmapped
    /\ At("alt") # {} /\ At("unmapped") # {}

\* the commands issued at a site, in order
RECURSIVE SiteCmds(_, _)
SiteCmds(cs, site) ==
    IF cs = <<>> THEN <<>>
    ELSE (IF Head(cs).site = site THEN <<Head(cs)>> ELSE <<>>)
         \o SiteCmds(Tail(cs), site)

\* C5: a run that passes indexing ends with each FASTQ file of the
\* bamtofastq command compressed by exactly one pigz issued after it:
\* .extracted.1.fq then .extracted.2.fq when paired, .extracted.fq alone
\* when not; pigz is never run on any other file.
C5_Pigz ==
    LET want == IF paired
                THEN <<outdir \o sample \o SfxFq1, outdir \o sample \o SfxFq2>>
                ELSE <<outdir \o sample \o SfxFq>>
        pz   == SiteCmds(cmds, "pigz")
    IN  /\ \A k \in At("pigz") :
              /\ \E j \in At("bamtofastq") :
                    j < k /\ cmds[k].in \in {cmds[j].out, cmds[j].out2} \ {NoStr}
              /\ \A j \in At("pigz") : cmds[j].in = cmds[k].in => j = k
        /\ \A j \in At("bamtofastq") :
              <<cmds[j].out, cmds[j].out2>> =
                  (IF paired THEN want ELSE <<want[1], NoStr>>)
        /\ pc = "done" => /\ Len(pz) = Len(want)
                          /\ \A n \in 1..Len(pz) : pz[n].in = want[n]

C5_Witness == pc = "done" /\ paired /\ Count("pigz") = 2

Range(f) == {f[k] : k \in DOMAIN f}

\* C6: remove_files is called exactly once, last, after all pigz commands,
\* with keep_files and exactly the three intermediates .hla.sam, .hla.bam
\* and .hla.sorted.bam; the input BAM, its .bai and the FASTQ outputs are
\* never in the list.
C6_Remove ==
    /\ Len(removed) = (IF pc = "done" THEN 1 ELSE 0)
    /\ \A n \in 1..Len(removed) :
          /\ removed[n].keep = keep_files
          /\ removed[n].files = <<temp \o sample \o SfxHlaSam,
                                  temp \o sample \o SfxHlaBam,
                                  temp \o sample \o SfxHlaSorted>>
          /\ Cardinality(Range(removed[n].files)) = 3
          /\ Range(removed[n].files) \cap
                ({bam, bam \o SfxBai}
                   \cup {cmds[k].in : k \in At("pigz")}
                   \cup {cmds[k].out : k \in At("bamtofastq")}
                   \cup {cmds[k].out2 : k \in At("bamtofastq")}) = {}
          /\ pending = <<>>
          /\ Count("pigz") = (IF paired THEN 2 ELSE 1)
          /\ cmds[Len(cmds)].site = "pigz"

C6_Witness == Len(removed) = 1 /\ keep_files /\ bam = <<"/", "t", "m", "p", "/", "s", ".", "h", "l", "a", ".", "b", "a", "m">>

\* the regions of the alt extractions, in the order issued
AltRegions == [n \in 1..Count("alt") |-> SiteCmds(cmds, "alt")[n].region]

\* the names of as that the BAM declares, each followed by ':'
RECURSIVE DeclaredAlts(_)
DeclaredAlts(as) ==
    IF as = <<>> THEN <<>>
    ELSE (IF Head(as) \in Range(contigs) THEN <<Head(as) \o <<":">>>> ELSE <<>>)
         \o DeclaredAlts(Tail(as))

AltsDone == pc \in {"sort", "fastq", "pigz", "done"}

\* C7 as stated: for each name in alts, in list order, exactly one samtools
\* view of region '<alt>:' is issued iff the header declares a contig of
\* that name.
C7_DeclaredOnly == AltsDone => AltRegions = DeclaredAlts(alts)

\* a is a subsequence of b
RECURSIVE IsSubSeq(_, _)
IsSubSeq(a, b) ==
    IF a = <<>> THEN TRUE
    ELSE IF b = <<>> THEN FALSE
    ELSE IF Head(a) = Head(b) THEN IsSubSeq(Tail(a), Tail(b))
    ELSE IsSubSeq(a, Tail(b))

\* the commands that write hla_filtered
SamWriters == {k \in 1..Len(cmds) : cmds[k].out = temp \o sample \o SfxHlaSam}

\* C8: the header write is the first and only command that creates or
\* overwrites the filtered SAM; every read extraction appends to it after
\* the header write; the SAM-to-BAM conversion reads it after the last
\* append, when it holds the header, the chromosome-6 reads, the unmapped
\* reads (if requested) and the alt reads in alts order.
C8_SamFile ==
    /\ \A k \in SamWriters :
          IF cmds[k].site = "header_write"
          THEN cmds[k].redir = "-o" /\ \A j \in SamWriters : k <= j
          ELSE /\ cmds[k].redir = ">>"
               /\ cmds[k].site \in {"chr6", "unmapped", "alt"}
               /\ \E j \in At("header_write") : j < k
    /\ At("chr6") \cup At("unmapped") \cup At("alt") \subseteq SamWriters
    /\ At("header_write") # {} =>
          /\ sam[1].by = "header_write"
          /\ Len(sam) = Cardinality(SamWriters)
    /\ AltsDone =>
          /\ sam_at_bam = sam
          /\ \A k \in SamWriters : \A j \in At("sam2bam") : k < j
          /\ [n \in 1..Len(sam_at_bam) |-> sam_at_bam[n].by] =
                <<"header_write", "chr6">>
                \o (IF unmapped THEN <<"unmapped">> ELSE <<>>)
                \o [n \in 1..Count("alt") |-> "alt"]
          /\ IsSubSeq([n \in 1..Count("alt") |->
                          sam_at_bam[Len(sam_at_bam) - Count("alt") + n].region],
                      [n \in 1..Len(alts) |-> alts[n] \o <<":">>])

C8_Witness ==
    /\ pc = "sort" /\ unmapped /\ Len(sam_at_bam) = 5
    /\ sam_at_bam[4].region # sam_at_bam[5].region

\* C9 as stated: the sample name of the default log file is the sample
\* name extract_reads uses for the intermediate and FASTQ files.
C9_SameSample ==
    (PastIndex /\ log_arg = NoStr) =>
        /\ main_sample = sample
        /\ log_file = outdir \o sample \o SfxLog

\* C10 as stated: every read of the BAM is selected by at most one of the
\* read-extraction commands of a run, so the filtered SAM holds it at most
\* once.
C10_NoReadTwice ==
    \A rd \in BamReads :
        Cardinality({n \in 1..Len(sam) : rd \in sam[n].reads}) <= 1

====
